---- MODULE Spec2Model ----
(***************************************************************************)
(* JSON Tree Visualizer (src/src/App.jsx): the JSON-path tokenizer, the    *)
(* path composer, the tree-to-graph builder and the search/visualize       *)
(* handlers of the App component.                                          *)
(*                                                                         *)
(* A JavaScript string is a sequence of one-character strings, so that     *)
(* trimming, prefix tests, scanning and concatenation are computed as the  *)
(* code computes them.  "" is the empty sequence.                          *)
(***************************************************************************)
EXTENDS Integers, Sequences, FiniteSets, TLC

VARIABLES
    raw,            \* useState raw: the text of the JSON input area
    error,          \* useState error
    json,           \* useState json: [val |-> JSON value, sample |-> it is the SAMPLE_JSON object itself]
    nodes,          \* useNodesState
    edges,          \* useEdgesState
    query,          \* useState query
    matchMsg,       \* useState matchMsg
    highlightId,    \* useState highlightId
    effectPending,  \* the rebuild effect (lines 210-215) is scheduled and has not run yet
    arg,            \* harness of the pure functions: the argument
    ret             \* harness of the pure functions: the returned value

vars == <<raw, error, json, nodes, edges, query, matchMsg, highlightId,
          effectPending, arg, ret>>

uiVars == <<raw, error, json, nodes, edges, query, matchMsg, highlightId, effectPending>>

-----------------------------------------------------------------------------
(* Bounds of the model *)

\* most nodes of a JSON document handed to the builder harness
MaxNodes == 5
\* longest path string handed to the tokenizer harness
MaxPathLen == 4
\* longest query typed key by key into the search box
MaxQueryLen == 2

-----------------------------------------------------------------------------
(* Strings *)

Empty == <<>>

Root == <<"r", "o", "o", "t">>

Digits == {"0", "1", "2", "3", "4", "5", "6", "7", "8", "9"}

\* String.prototype.startsWith
StartsWith(s, p) == Len(s) >= Len(p) /\ SubSeq(s, 1, Len(p)) = p

\* String.prototype.includes, for a one-character needle
Includes(s, ch) == \E i \in 1..Len(s) : s[i] = ch

\* String.prototype.slice(1)
Slice1(s) == SubSeq(s, 2, Len(s))

SetMin(S) == CHOOSE x \in S : \A y \in S : x <= y

SetMax(S) == CHOOSE x \in S : \A y \in S : x >= y

\* String.prototype.trim: white space is removed at both ends only
Trim(s) ==
    LET keep == {i \in 1..Len(s) : s[i] # " "}
    IN  IF keep = {} THEN Empty ELSE SubSeq(s, SetMin(keep), SetMax(keep))

\* /^\d+$/.test(s)
IsDigits(s) == Len(s) > 0 /\ \A i \in 1..Len(s) : s[i] \in Digits

-----------------------------------------------------------------------------
(* parseJsonPath, lines 14-53 *)

\* `return null`
ParseNull == [ok |-> FALSE, tokens |-> <<>>]

ParseOk(tokens) == [ok |-> TRUE, tokens |-> tokens]

\* `if (buf) tokens.push(buf), (buf = "")`
Flush(tokens, buf) == IF buf # Empty THEN Append(tokens, buf) ELSE tokens

\* tokens.filter(Boolean)
FilterBoolean(tokens) == SelectSeq(tokens, LAMBDA t : t # Empty)

\* the index of the first "]" at or after j, or Len(s) + 1: the inner while loop
RECURSIVE CloseAt(_, _)
CloseAt(s, j) ==
    IF j <= Len(s) /\ s[j] # "]" THEN CloseAt(s, j + 1) ELSE j

\* the scan with `buf = ""` of line 26 left out: the buffer survives a dot
RECURSIVE ScanFromKeepsBuf(_, _, _, _)
ScanFromKeepsBuf(s, i, buf, tokens) ==
    IF i > Len(s) THEN ParseOk(FilterBoolean(Flush(tokens, buf)))
    ELSE IF s[i] = "." THEN ScanFromKeepsBuf(s, i + 1, buf, Flush(tokens, buf))
    ELSE IF s[i] = "[" THEN
        LET j   == CloseAt(s, i + 1)
            idx == Trim(SubSeq(s, i + 1, j - 1))
            nxt == j + 1
        IN  IF j > Len(s) THEN ParseNull
            ELSE IF ~IsDigits(idx) THEN ParseNull
            ELSE ScanFromKeepsBuf(s,
                          IF nxt <= Len(s) /\ s[nxt] = "." THEN nxt + 1 ELSE nxt,
                          Empty,
                          Append(Flush(tokens, buf), <<"[">> \o idx \o <<"]">>))
    ELSE ScanFromKeepsBuf(s, i + 1, Append(buf, s[i]), tokens)

\* the while loop of lines 23-50 and the return of lines 51-52, at position i
\* (1-based) with the pending buffer buf and the tokens pushed so far
RECURSIVE ScanFrom(_, _, _, _)
ScanFrom(s, i, buf, tokens) ==
    IF i > Len(s) THEN ParseOk(FilterBoolean(Flush(tokens, buf)))
    ELSE IF s[i] = "." THEN ScanFrom(s, i + 1, Empty, Flush(tokens, buf))
    ELSE IF s[i] = "[" THEN
        LET j   == CloseAt(s, i + 1)
            idx == Trim(SubSeq(s, i + 1, j - 1))
            nxt == j + 1
        IN  IF j > Len(s) THEN ParseNull
            ELSE IF ~IsDigits(idx) THEN ParseNull
            ELSE ScanFrom(s,
                          IF nxt <= Len(s) /\ s[nxt] = "." THEN nxt + 1 ELSE nxt,
                          Empty,
                          Append(Flush(tokens, buf), <<"[">> \o idx \o <<"]">>))
    ELSE ScanFrom(s, i + 1, Append(buf, s[i]), tokens)

\* lines 16-18: trim, then drop one leading "$", then one leading "."
StripLead(input) ==
    LET s0 == Trim(input)
        s1 == IF StartsWith(s0, <<"$">>) THEN Slice1(s0) ELSE s0
    IN  IF StartsWith(s1, <<".">>) THEN Slice1(s1) ELSE s1

parseJsonPath(input) ==
    IF input = Empty THEN ParseOk(<<>>)
    ELSE ScanFrom(StripLead(input), 1, Empty, <<>>)

-----------------------------------------------------------------------------
(* makeChildPath, lines 56-63 *)

makeChildPath(parentPath, key) ==
    IF StartsWith(key, <<"[">>)
    THEN (IF parentPath # Empty THEN parentPath \o key ELSE key)
    ELSE (IF parentPath # Empty THEN parentPath \o <<".">> \o key ELSE key)

-----------------------------------------------------------------------------
(* JSON values.  A value carries its JavaScript type tag; an array holds   *)
(* its items in vals; an object holds its own keys in keys, in the order   *)
(* Object.keys lists them, and the members' values, aligned, in vals; a    *)
(* primitive holds its JSON literal (what JSON.stringify prints) in lit.   *)

JArr(items) == [tag |-> "array", keys |-> <<>>, vals |-> items, lit |-> Empty]

JObj(ks, vs) == [tag |-> "object", keys |-> ks, vals |-> vs, lit |-> Empty]

JPrim(tag, lit) == [tag |-> tag, keys |-> <<>>, vals |-> <<>>, lit |-> lit]

JNum1 == JPrim("number", <<"1">>)

JNull == JPrim("null", <<"n", "u", "l", "l">>)

EmptyObject == JObj(<<>>, <<>>)

-----------------------------------------------------------------------------
(* buildFlowFromJSON, lines 85-159 *)

X_STEP == 260

Y_STEP == 110

\* lines 94-98
nodeTypeOf(value) ==
    IF value.tag = "array" THEN "array"
    ELSE IF value.tag # "null" /\ value.tag = "object" THEN "object"
    ELSE "primitive"

\* the decimal digits of a natural number: the template literal `${idx}`
RECURSIVE NatToString(_)
NatToString(n) ==
    LET d == <<"0", "1", "2", "3", "4", "5", "6", "7", "8", "9">>[(n % 10) + 1]
    IN  IF n < 10 THEN <<d>> ELSE NatToString(n \div 10) \o <<d>>

\* lines 121-124
nodeLabelOf(type, keyLabel, value) ==
    IF type = "object" THEN keyLabel \o <<" ", "{", " ", "}">>
    ELSE IF type = "array" THEN keyLabel \o <<" ", "[", " ", "]">>
    ELSE keyLabel \o <<":", " ">> \o value.lit

\* the builder's mutable locals: nodes, edges and leafOrderAtDepth (lines 86-89)
EmptyBuild == [nodes |-> <<>>, edges |-> <<>>, leafOrderAtDepth |-> <<>>]

\* `leafOrderAtDepth[depth] ?? 0`; depth d is kept at index d + 1
OrderAt(lo, depth) == IF depth + 1 \in DOMAIN lo THEN lo[depth + 1] ELSE 0

\* `leafOrderAtDepth[depth] = v`; depths are first written in increasing order
SetOrderAt(lo, depth, v) ==
    IF depth + 1 \in DOMAIN lo THEN [lo EXCEPT ![depth + 1] = v] ELSE Append(lo, v)

\* addNode with line 105 left out: the per-depth counter is never advanced
addNodeNoAdvance(st, id, label, type, depth) ==
    [st EXCEPT !.nodes = Append(@, [id |-> id,
                                    position |-> [x |-> OrderAt(st.leafOrderAtDepth, depth) * X_STEP,
                                                  y |-> depth * Y_STEP],
                                    data |-> [label |-> label, type |-> type]])]

\* lines 100-117 (the tooltip and the style object are presentation only)
addNode(st, id, label, type, depth) ==
    LET order == OrderAt(st.leafOrderAtDepth, depth)
        x     == order * X_STEP
        y     == depth * Y_STEP
    IN  [st EXCEPT !.leafOrderAtDepth = SetOrderAt(@, depth, order + 1),
                   !.nodes = Append(@, [id |-> id,
                                        position |-> [x |-> x, y |-> y],
                                        data |-> [label |-> label, type |-> type]])]

\* line 131
EdgeOf(parentId, target) ==
    [id |-> parentId \o <<"-", ">">> \o target, source |-> parentId, target |-> target]

\* lines 119-146.  parentId null is the empty string here: `if (parentId)` treats
\* both alike and parentId is read nowhere else.
RECURSIVE traverse(_, _, _, _, _, _), forEachChild(_, _, _, _, _, _)
traverse(st, value, path, depth, parentId, keyLabel) ==
    LET type == nodeTypeOf(value)
        self == IF path # Empty THEN path ELSE keyLabel
        st1  == addNode(st, self, nodeLabelOf(type, keyLabel, value), type, depth)
        st2  == IF parentId # Empty
                THEN [st1 EXCEPT !.edges = Append(@, EdgeOf(parentId, self))]
                ELSE st1
    IN  IF type \in {"object", "array"}
        THEN forEachChild(st2, value, path, depth, self, 1)
        ELSE st2

\* the forEach callbacks of lines 135-138 (object) and 140-144 (array), from the
\* n-th child on
forEachChild(st, value, path, depth, self, n) ==
    IF n > Len(value.vals) THEN st
    ELSE LET k == IF nodeTypeOf(value) = "object"
                  THEN value.keys[n]
                  ELSE <<"[">> \o NatToString(n - 1) \o <<"]">>
             childPath == makeChildPath(path, k)
         IN  forEachChild(traverse(st, value.vals[n], childPath, depth + 1, self, k),
                          value, path, depth, self, n + 1)

\* line 152
MaxColsOf(lo) ==
    IF Len(lo) > 0 THEN SetMax({lo[i] : i \in 1..Len(lo)}) ELSE 1

\* line 153; (maxCols - 1) * 260 is even, so the division is exact
CenterX(maxCols) == ((maxCols - 1) * X_STEP) \div 2

buildFlowFromJSON(value) ==
    LET st      == traverse(EmptyBuild, value, Root, 0, Empty, Root)
        centerX == CenterX(MaxColsOf(st.leafOrderAtDepth))
    IN  [nodes |-> [i \in 1..Len(st.nodes) |->
                       [st.nodes[i] EXCEPT !.position.x = @ - centerX]],
         edges |-> st.edges]

-----------------------------------------------------------------------------
(* The App component, lines 179-317 *)

\* lines 179-192
SAMPLE_JSON ==
    JObj(<<<<"u", "s", "e", "r">>, <<"i", "t", "e", "m", "s">>, <<"m", "e", "t", "a">>>>,
         <<JObj(<<<<"i", "d">>, <<"n", "a", "m", "e">>, <<"a", "d", "d", "r", "e", "s", "s">>, <<"r", "o", "l", "e", "s">>, <<"a", "c", "t", "i", "v", "e">>>>,
                 <<JPrim("number", <<"1", "0", "1">>),
                    JPrim("string", <<"\"", "A", "k", "a", "s", "h", "\"">>),
                    JObj(<<<<"c", "i", "t", "y">>, <<"z", "i", "p">>>>,
                         <<JPrim("string", <<"\"", "B", "e", "n", "g", "a", "l", "u", "r", "u", "\"">>),
                            JPrim("string", <<"\"", "5", "6", "0", "0", "0", "1", "\"">>)>>),
                    JArr(<<JPrim("string", <<"\"", "f", "r", "o", "n", "t", "e", "n", "d", "\"">>),
                            JPrim("string", <<"\"", "u", "i", "\"">>)>>),
                    JPrim("boolean", <<"t", "r", "u", "e">>)>>),
            JArr(<<JObj(<<<<"i", "d">>, <<"n", "a", "m", "e">>, <<"p", "r", "i", "c", "e">>>>,
                         <<JPrim("number", <<"1">>),
                            JPrim("string", <<"\"", "N", "o", "t", "e", "b", "o", "o", "k", "\"">>),
                            JPrim("number", <<"9", "9", ".", "5">>)>>),
                    JObj(<<<<"i", "d">>, <<"n", "a", "m", "e">>, <<"p", "r", "i", "c", "e">>>>,
                         <<JPrim("number", <<"2">>),
                            JPrim("string", <<"\"", "P", "e", "n", "c", "i", "l", "\"">>),
                            JPrim("number", <<"9", ".", "9">>)>>)>>),
            JPrim("null", <<"n", "u", "l", "l">>)>>)

\* The text of the input area is what JSON.parse makes of it: a text that
\* parses to a value, or a text on which JSON.parse throws.
Text(v) == [parses |-> TRUE, value |-> v]

Unparsable == [parses |-> FALSE, value |-> JNull]

\* JSON.stringify(SAMPLE_JSON, null, 2), lines 196 and 240
SampleText == Text(SAMPLE_JSON)

InvalidJsonMsg == "Invalid JSON. Please fix the syntax and try again."

NoMatchMsg == "No match found"

MatchMsg == "Match found"

\* the documents a user types into the input area
TypedDocs ==
    { JNum1,
      JObj(<< <<"a">> >>, << JArr(<<JNum1, JNull>>) >>) }

RawTexts == {Unparsable} \cup {Text(d) : d \in TypedDocs}

\* the characters typed into the search box
QueryChars == {"a", "[", "]", "0", " "}

\* queries pasted as a whole: the placeholder's and the spec's examples
PastedQueries ==
    { <<"i", "t", "e", "m", "s", "[", "0", "]", ".", "n", "a", "m", "e">>,
      <<"i", "t", "e", "m", "s", "[", "a", "]">>,
      <<"$", ".", "a", "[", "1", "]">>,
      <<"$">> }

\* Object.is(old, next) for the json state: SAMPLE_JSON is one object, a
\* primitive is identical to an equal primitive, and an object or array made by
\* JSON.parse or by the literal {} is identical to nothing held before
SameJson(old, next) ==
    IF next.sample THEN old.sample
    ELSE nodeTypeOf(next.val) = "primitive" /\ ~old.sample /\ old.val = next.val

\* findNodeByPath with line 250 left out: a failed parse is folded as no tokens
findNodeByPathIgnoresNull(pathStr, ns) ==
    LET parsed == parseJsonPath(pathStr)
        RECURSIVE Fold(_, _)
        Fold(path, i) ==
            IF i > Len(parsed.tokens) THEN path
            ELSE Fold(makeChildPath(path, parsed.tokens[i]), i + 1)
        path == Fold(Root, 1)
        hits == {i \in 1..Len(ns) : ns[i].id = path}
    IN  IF hits = {} THEN [found |-> FALSE, id |-> Empty]
        ELSE [found |-> TRUE, id |-> ns[SetMin(hits)].id]

\* lines 247-259; the result is [found, id of the node found]
findNodeByPath(pathStr, ns) ==
    LET parsed == parseJsonPath(pathStr)
        RECURSIVE Fold(_, _)
        Fold(path, i) ==
            IF i > Len(parsed.tokens) THEN path
            ELSE Fold(makeChildPath(path, parsed.tokens[i]), i + 1)
        path == Fold(Root, 1)
        hits == {i \in 1..Len(ns) : ns[i].id = path}
    IN  IF ~parsed.ok THEN [found |-> FALSE, id |-> Empty]
        ELSE IF hits = {} THEN [found |-> FALSE, id |-> Empty]
        ELSE [found |-> TRUE, id |-> ns[SetMin(hits)].id]

\* line 265
Normalize(q) ==
    IF StartsWith(q, <<"$">>) \/ StartsWith(q, Root) \/ Includes(q, "[") \/ Includes(q, ".")
    THEN q
    ELSE <<"$", ".">> \o q

\* doSearch with lines 262-264 left out of the empty-query path: an empty query
\* is looked up like any other
doSearchNoEmptyGuard(q0, ns, hl) ==
    LET node == findNodeByPath(Normalize(Trim(q0)), ns)
    IN  IF ~node.found THEN [highlightId |-> Empty, matchMsg |-> NoMatchMsg]
        ELSE [highlightId |-> node.id, matchMsg |-> MatchMsg]

\* lines 261-283: the values doSearch leaves in highlightId and matchMsg
\* (fitView only moves the viewport)
doSearch(q0, ns, hl) ==
    LET q    == Trim(q0)
        node == findNodeByPath(Normalize(q), ns)
    IN  IF q = Empty THEN [highlightId |-> hl, matchMsg |-> ""]
        ELSE IF ~node.found THEN [highlightId |-> Empty, matchMsg |-> NoMatchMsg]
        ELSE [highlightId |-> node.id, matchMsg |-> MatchMsg]

\* line 287: node.id.replace(/^root\.?/, "")
CopiedPath(id) ==
    IF StartsWith(id, Root \o <<".">>) THEN SubSeq(id, 6, Len(id))
    ELSE IF StartsWith(id, Root) THEN SubSeq(id, 5, Len(id))
    ELSE id

-----------------------------------------------------------------------------------------------------------------------------------------------------
(* The state machine of the App component.  A handler runs to its end, React *)
(* renders and, when json is another value, useMemo (line 200) builds a new  *)
(* graph and the effect of lines 210-215 is scheduled; the effect runs       *)
(* before the next event is handled.  builtNodes and builtEdges are          *)
(* buildFlowFromJSON(json), so they are not kept as state.  The theme, the   *)
(* toast and the viewport are presentation only and are left out.            *)

NotRun == [done |-> FALSE]

UIInit ==
    /\ raw = SampleText
    /\ error = ""
    /\ json = [val |-> SAMPLE_JSON, sample |-> TRUE]
    /\ nodes = buildFlowFromJSON(SAMPLE_JSON).nodes
    /\ edges = buildFlowFromJSON(SAMPLE_JSON).edges
    /\ query = Empty
    /\ matchMsg = ""
    /\ highlightId = Empty
    /\ effectPending = FALSE

Init == UIInit /\ arg = Empty /\ ret = NotRun

\* setJson(next) and the render after it: lines 198-200 and the scheduling of
\* the effect
Render(next) ==
    IF SameJson(json, next)
    THEN UNCHANGED <<json, effectPending>>
    ELSE json' = next /\ effectPending' = TRUE

\* line 348
SetRaw(t) ==
    /\ ~effectPending
    /\ raw' = t
    /\ UNCHANGED <<error, json, nodes, edges, query, matchMsg, highlightId,
                   effectPending, arg, ret>>

\* visualize with setJson({}) in the catch branch: a text that does not parse
\* replaces the graph by that of the empty object
visualizeResetsOnError ==
    /\ ~effectPending
    /\ error' = IF raw.parses THEN "" ELSE InvalidJsonMsg
    /\ Render([val |-> IF raw.parses THEN raw.value ELSE EmptyObject, sample |-> FALSE])
    /\ UNCHANGED <<raw, nodes, edges, query, matchMsg, highlightId, arg, ret>>

\* lines 219-227
visualize ==
    /\ ~effectPending
    /\ IF raw.parses
       THEN /\ error' = ""
            /\ Render([val |-> raw.value, sample |-> FALSE])
       ELSE /\ error' = InvalidJsonMsg
            /\ UNCHANGED <<json, effectPending>>
    /\ UNCHANGED <<raw, nodes, edges, query, matchMsg, highlightId, arg, ret>>

\* lines 229-237
clearAll ==
    /\ ~effectPending
    /\ raw' = Text(EmptyObject)
    /\ Render([val |-> EmptyObject, sample |-> FALSE])
    /\ query' = Empty
    /\ highlightId' = Empty
    /\ matchMsg' = ""
    /\ UNCHANGED <<error, nodes, edges, arg, ret>>

\* lines 239-245
fillSample ==
    /\ ~effectPending
    /\ raw' = SampleText
    /\ Render([val |-> SAMPLE_JSON, sample |-> TRUE])
    /\ highlightId' = Empty
    /\ matchMsg' = ""
    /\ UNCHANGED <<error, nodes, edges, query, arg, ret>>

\* line 371, one key typed at the end of the query
TypeQuery(ch) ==
    /\ ~effectPending
    /\ Len(query) < MaxQueryLen
    /\ query' = Append(query, ch)
    /\ UNCHANGED <<raw, error, json, nodes, edges, matchMsg, highlightId,
                   effectPending, arg, ret>>

\* line 371, the whole query replaced (pasted, or erased)
PasteQuery(q) ==
    /\ ~effectPending
    /\ query' = q
    /\ UNCHANGED <<raw, error, json, nodes, edges, matchMsg, highlightId,
                   effectPending, arg, ret>>

\* lines 261-283
DoSearch ==
    /\ ~effectPending
    /\ highlightId' = doSearch(query, nodes, highlightId).highlightId
    /\ matchMsg' = doSearch(query, nodes, highlightId).matchMsg
    /\ UNCHANGED <<raw, error, json, nodes, edges, query, effectPending, arg, ret>>

\* the effect of lines 210-215 with lines 213-214 left out
RebuildEffectKeepsHighlight ==
    /\ effectPending
    /\ nodes' = buildFlowFromJSON(json.val).nodes
    /\ edges' = buildFlowFromJSON(json.val).edges
    /\ effectPending' = FALSE
    /\ UNCHANGED <<raw, error, json, query, arg, ret, highlightId, matchMsg>>

\* lines 210-215
RebuildEffect ==
    /\ effectPending
    /\ nodes' = buildFlowFromJSON(json.val).nodes
    /\ edges' = buildFlowFromJSON(json.val).edges
    /\ highlightId' = Empty
    /\ matchMsg' = ""
    /\ effectPending' = FALSE
    /\ UNCHANGED <<raw, error, json, query, arg, ret>>

Next ==
    \/ \E t \in RawTexts : SetRaw(t)
    \/ visualize
    \/ clearAll
    \/ fillSample
    \/ \E ch \in QueryChars : TypeQuery(ch)
    \/ \E q \in PastedQueries \cup {Empty} : PasteQuery(q)
    \/ DoSearch
    \/ RebuildEffect

Spec == Init /\ [][Next]_vars

-----------------------------------------------------------------------------------------------------------------------------------------------------
(* buildFlowFromJSON applied to every JSON document of at most MaxNodes    *)
(* values.  A document is written value by value in document order: each   *)
(* new value is the last child, so far, of an open array or object on the  *)
(* rightmost branch.  Object keys here are not integer-like, so            *)
(* Object.keys lists them in the order written.                            *)

HarnessKeys == { <<"a">>, <<"a", ".", "a">>, <<"[", "0", "]">> }

Leaves == {JNum1, JArr(<<>>), EmptyObject}

RECURSIVE CountValues(_)
CountValues(v) ==
    LET RECURSIVE Sum(_)
        Sum(n) == IF n = 0 THEN 0 ELSE Sum(n - 1) + CountValues(v.vals[n])
    IN  1 + Sum(Len(v.vals))

\* the depths at which the rightmost branch of v holds an array or an object
RECURSIVE OpenDepths(_)
OpenDepths(v) ==
    IF nodeTypeOf(v) = "primitive" THEN {}
    ELSE {0} \cup (IF Len(v.vals) = 0 THEN {}
                   ELSE {d + 1 : d \in OpenDepths(v.vals[Len(v.vals)])})

\* the array or object at depth d of the rightmost branch of v
RECURSIVE OpenAt(_, _)
OpenAt(v, d) == IF d = 0 THEN v ELSE OpenAt(v.vals[Len(v.vals)], d - 1)

\* v with the member (k, leaf) written last into the container at depth d of
\* its rightmost branch; k is ignored for an array
RECURSIVE WriteAt(_, _, _, _)
WriteAt(v, d, k, leaf) ==
    IF d = 0
    THEN (IF v.tag = "object"
          THEN JObj(Append(v.keys, k), Append(v.vals, leaf))
          ELSE JArr(Append(v.vals, leaf)))
    ELSE [v EXCEPT !.vals[Len(v.vals)] = WriteAt(@, d - 1, k, leaf)]

BuildInit ==
    /\ UIInit
    /\ arg \in Leaves
    /\ ret = NotRun

\* one more value of the document handed to the builder
WriteValue(d, k, leaf) ==
    /\ ~ret.done
    /\ CountValues(arg) < MaxNodes
    /\ d \in OpenDepths(arg)
    /\ LET c == OpenAt(arg, d)
       IN  IF c.tag = "object"
           THEN \A i \in 1..Len(c.keys) : c.keys[i] # k
           ELSE k = <<"a">>
    /\ arg' = WriteAt(arg, d, k, leaf)
    /\ UNCHANGED <<uiVars, ret>>

BuildCall ==
    /\ ~ret.done
    /\ ret' = [done |-> TRUE,
               nodes |-> buildFlowFromJSON(arg).nodes,
               edges |-> buildFlowFromJSON(arg).edges]
    /\ UNCHANGED <<uiVars, arg>>

BuildNext ==
    \/ \E d \in 0..MaxNodes, k \in HarnessKeys, leaf \in Leaves : WriteValue(d, k, leaf)
    \/ BuildCall

BuildSpec == BuildInit /\ [][BuildNext]_vars

-----
(* parseJsonPath applied to every string of at most MaxPathLen characters *)

PathChars == {"a", ".", "[", "]", "0", " ", "$"}

Strings(chars, n) == UNION {[1..k -> chars] : k \in 0..n}

ParseInit ==
    /\ UIInit
    /\ arg \in Strings(PathChars, MaxPathLen)
    /\ ret = NotRun

ParseCall ==
    /\ ~ret.done
    /\ ret' = [done |-> TRUE,
               ok |-> parseJsonPath(arg).ok,
               tokens |-> parseJsonPath(arg).tokens]
    /\ UNCHANGED <<uiVars, arg>>

ParseNext == ParseCall

ParseSpec == ParseInit /\ [][ParseNext]_vars

-----------------------------------------------------------------------------
(* Claims about buildFlowFromJSON, checked under BuildSpec *)

NodeIds(ns) == {ns[i].id : i \in 1..Len(ns)}

\* C1: all node ids of the node list returned by buildFlowFromJSON are
\* pairwise distinct, whatever the keys of the document are.
C1_NodeIdsDistinct ==
    ret.done =>
        \A i, j \in 1..Len(ret.nodes) : i # j => ret.nodes[i].id # ret.nodes[j].id

\* the ids reached from the ids in seen by following edges, seen included
RECURSIVE ReachedFrom(_, _)
ReachedFrom(seen, es) ==
    LET more == seen \cup {es[i].target : i \in {j \in 1..Len(es) : es[j].source \in seen}}
    IN  IF more = seen THEN seen ELSE ReachedFrom(more, es)

\* C2: the edges returned by buildFlowFromJSON form one tree rooted at "root":
\* no edge enters the root, exactly one edge enters every other node id, every
\* edge joins ids of produced nodes, every node is reached from the root, and
\* there is one edge fewer than there are nodes.
C2_EdgesFormTree ==
    ret.done =>
        LET ids == NodeIds(ret.nodes)
            es  == ret.edges
        IN  /\ Root \in ids
            /\ \A i \in 1..Len(es) : es[i].target # Root
            /\ \A id \in ids \ {Root} :
                   Cardinality({i \in 1..Len(es) : es[i].target = id}) = 1
            /\ \A i \in 1..Len(es) : es[i].source \in ids /\ es[i].target \in ids
            /\ ReachedFrom({Root}, es) = ids
            /\ Len(es) = Len(ret.nodes) - 1

\* the depths of the values of v in depth-first pre-order, v itself at depth d
RECURSIVE DepthsInPreOrder(_, _)
DepthsInPreOrder(v, d) ==
    LET RECURSIVE Kids(_)
        Kids(n) == IF n > Len(v.vals) THEN <<>>
                   ELSE DepthsInPreOrder(v.vals[n], d + 1) \o Kids(n + 1)
    IN  <<d>> \o Kids(1)

\* C7: the node visited as the c-th (from 0) of depth d in pre-order over the
\* whole document lies at y = d * 110 and x = c * 260 - (maxCols - 1) * 260 / 2,
\* maxCols being the most nodes at one depth; so no two nodes share a position
\* and the widest depth tier is symmetric about x = 0.
C7_LayoutByDepthOrder ==
    ret.done =>
        LET ds      == DepthsInPreOrder(arg, 0)
            tier(d) == {j \in 1..Len(ds) : ds[j] = d}
            maxCols == SetMax({Cardinality(tier(ds[j])) : j \in 1..Len(ds)})
            ns      == ret.nodes
        IN  /\ Len(ns) = Len(ds)
            /\ \A i \in 1..Len(ns) :
                   LET c == Cardinality({j \in 1..(i - 1) : ds[j] = ds[i]})
                   IN  /\ ns[i].position.y = ds[i] * 110
                       /\ 2 * ns[i].position.x = 2 * c * 260 - (maxCols - 1) * 260
            /\ \A i, j \in 1..Len(ns) : i # j => ns[i].position # ns[j].position
            /\ \A i \in 1..Len(ns) :
                   Cardinality(tier(ds[i])) = maxCols =>
                       \E j \in tier(ds[i]) : ns[j].position.x = 0 - ns[i].position.x

\* C7 witness: a built document with distinct ids in which two neighbouring
\* nodes of one depth have different parents (the counter of that depth is
\* shared by two subtrees); the k-th edge is the one entering the (k+1)-th node
C7_Witness ==
    /\ ret.done
    /\ C1_NodeIdsDistinct
    /\ \E i, j \in 2..Len(ret.nodes) :
           /\ ret.edges[i - 1].target = ret.nodes[i].id
           /\ ret.edges[j - 1].target = ret.nodes[j].id
           /\ ret.edges[i - 1].source # ret.edges[j - 1].source
           /\ ret.nodes[i].position.y = ret.nodes[j].position.y
           /\ ret.nodes[i].position.x + X_STEP = ret.nodes[j].position.x

\* the ids the rule of C8 gives the values of v in pre-order, v itself having id p
RECURSIVE IdsByRule(_, _)
IdsByRule(v, p) ==
    LET RECURSIVE Kids(_)
        Kids(n) ==
            IF n > Len(v.vals) THEN <<>>
            ELSE IdsByRule(v.vals[n],
                           IF v.tag = "object"
                           THEN p \o <<".">> \o v.keys[n]
                           ELSE p \o <<"[">> \o NatToString(n - 1) \o <<"]">>)
                 \o Kids(n + 1)
    IN  <<p>> \o Kids(1)

\* C8: the root node's id is "root", the node of the member with key k of an
\* object with id p has id p + "." + k for every string key k, and the node of
\* element i of an array with id p has id p + "[" + i + "]".
C8_IdsComposedByRule ==
    ret.done =>
        [i \in 1..Len(ret.nodes) |-> ret.nodes[i].id] = IdsByRule(arg, Root)

-----------------------------------------------------------------------------
(* Claims about parseJsonPath, checked under ParseSpec *)

\* position p of s lies inside a bracket segment: after a "[" with no "]" since
InBracket(s, p) ==
    \E j \in 1..p : s[j] = "[" /\ \A k \in (j + 1)..p : s[k] # "]"

\* s[p] is a "]" that closes a bracket segment
ClosesBracket(s, p) ==
    /\ p >= 1
    /\ s[p] = "]"
    /\ \E j \in 1..(p - 1) : s[j] = "[" /\ \A k \in (j + 1)..(p - 1) : s[k] # "]"

InsertDot(s, p) == SubSeq(s, 1, p) \o <<".">> \o SubSeq(s, p + 1, Len(s))

\* the places of s (p characters before the place) where C9 adds a dot: after
\* what trim and the "$"/"." strip remove and before the trailing white space,
\* outside brackets, and at the start, at the end, next to a dot, before a "["
\* or directly after a closing "]"
DotPlaces(s) ==
    LET keep  == {i \in 1..Len(s) : s[i] # " "}
        first == (IF keep = {} THEN Len(s) ELSE SetMin(keep) - 1)
                 + Len(Trim(s)) - Len(StripLead(s))
        last  == IF keep = {} THEN Len(s) ELSE SetMax(keep)
    IN  {p \in first..last :
            /\ ~InBracket(s, p)
            /\ \/ p = first
               \/ p = last
               \/ (p >= 1 /\ s[p] = ".")
               \/ (p < Len(s) /\ s[p + 1] \in {".", "["})
               \/ ClosesBracket(s, p)}

RECURSIVE Flatten(_)
Flatten(ts) == IF ts = <<>> THEN <<>> ELSE Head(ts) \o Flatten(Tail(ts))

\* the characters of s other than the dots and the white space inside brackets
RECURSIVE SegmentChars(_, _)
SegmentChars(s, i) ==
    IF i > Len(s) THEN <<>>
    ELSE (IF s[i] = "." \/ (s[i] = " " /\ InBracket(s, i)) THEN <<>> ELSE <<s[i]>>)
         \o SegmentChars(s, i + 1)

IsIndexToken(t) ==
    Len(t) >= 3 /\ t[1] = "[" /\ t[Len(t)] = "]" /\ IsDigits(SubSeq(t, 2, Len(t) - 1))

IsKeyToken(t) == Len(t) >= 1 /\ ~Includes(t, ".") /\ ~Includes(t, "[")

\* C9: when parseJsonPath does not fail, no token is empty, the tokens are the
\* key runs and the bracket indices of the path in their left-to-right order,
\* and one more dot at the start, between segments, directly after a "]" or at
\* the end gives the same tokens.
C9_DotsEmitNothing ==
    (ret.done /\ ret.ok) =>
        /\ \A i \in 1..Len(ret.tokens) :
               IsIndexToken(ret.tokens[i]) \/ IsKeyToken(ret.tokens[i])
        /\ Flatten(ret.tokens) = SegmentChars(StripLead(arg), 1)
        /\ \A p \in DotPlaces(arg) :
               /\ parseJsonPath(InsertDot(arg, p)).ok
               /\ parseJsonPath(InsertDot(arg, p)).tokens = ret.tokens

\* C9 witness: a parsed path with two dots in a row between two segments
C9_Witness ==
    /\ ret.done
    /\ ret.ok
    /\ Len(ret.tokens) = 2
    /\ \E i \in 1..(Len(arg) - 1) : arg[i] = "." /\ arg[i + 1] = "."

-----------------------------------------------------------------------------
(* Claims about the App component, checked under Spec *)

\* q holds a "[" with no later "]", or a "[" whose content up to the next "]",
\* trimmed, is not a non-empty string of digits
Malformed(q) ==
    \E i \in 1..Len(q) :
        /\ q[i] = "["
        /\ LET closes == {j \in (i + 1)..Len(q) : q[j] = "]"}
           IN  \/ closes = {}
               \/ ~IsDigits(Trim(SubSeq(q, i + 1, SetMin(closes) - 1)))

\* C3: for every node of the graph, the path onNodeClick copies for it,
\* submitted as the search query, highlights a node with that node's id.
C3_CopiedPathFindsNode ==
    ~effectPending =>
        \A i \in 1..Len(nodes) :
            /\ doSearch(CopiedPath(nodes[i].id), nodes, highlightId).highlightId = nodes[i].id
            /\ doSearch(CopiedPath(nodes[i].id), nodes, highlightId).matchMsg = MatchMsg

\* C4: a search whose query is malformed fails to tokenize and ends as a search
\* that matches no node does: no node is highlighted, "No match found" is
\* shown, and the graph is untouched, whatever the node set is.
C4_MalformedQueryIsNoMatch ==
    [][ /\ (DoSearch /\ Malformed(query)) =>
            /\ ~parseJsonPath(Normalize(Trim(query))).ok
            /\ highlightId' = Empty
            /\ matchMsg' = NoMatchMsg
            /\ UNCHANGED <<nodes, edges, json, error>>
        /\ (DoSearch /\ Trim(query) # Empty
                     /\ ~findNodeByPath(Normalize(Trim(query)), nodes).found) =>
            /\ highlightId' = Empty
            /\ matchMsg' = NoMatchMsg ]_vars

\* C4 witness: the state a search with a malformed query has left
C4_Witness ==
    /\ ~effectPending
    /\ Malformed(query)
    /\ matchMsg = NoMatchMsg
    /\ highlightId = Empty

\* C5: Visualize on a text that does not parse leaves the source JSON value,
\* the node set and the edge set as they were, schedules no rebuild, and sets
\* the invalid-input message.
C5_FailedVisualizeKeepsGraph ==
    [][ (visualize /\ ~raw.parses) =>
            /\ UNCHANGED <<json, nodes, edges, effectPending>>
            /\ error' = InvalidJsonMsg ]_vars

\* C5 witness: the invalid-input message shown over a graph that still holds a
\* highlighted node
C5_Witness ==
    /\ error = InvalidJsonMsg
    /\ ~raw.parses
    /\ ~effectPending
    /\ highlightId # Empty

\* C6: a search with an empty or all-blank query shows no message afterwards
\* and leaves the node set, the edge set and the highlighted id as they were.
C6_EmptySearchIsNoOp ==
    [][ (DoSearch /\ Trim(query) = Empty) =>
            /\ UNCHANGED <<nodes, edges, highlightId, json, effectPending>>
            /\ matchMsg' = "" ]_vars

\* C6 witness: a node is still highlighted and no message is shown, which only
\* an all-blank search after a successful one leaves
C6_Witness ==
    /\ ~effectPending
    /\ query # Empty
    /\ Trim(query) = Empty
    /\ highlightId # Empty
    /\ matchMsg = ""

\* C10: once the rebuild effect has run, the highlighted id is empty or the id
\* of a node of the current node set, and "Match found" is shown only while it
\* is such an id; every step that replaces the graph clears both.
C10_HighlightIsCurrentNode ==
    /\ [](~effectPending =>
              /\ highlightId = Empty \/ highlightId \in NodeIds(nodes)
              /\ matchMsg = MatchMsg => highlightId \in NodeIds(nodes))
    /\ [][ (nodes' # nodes \/ edges' # edges) =>
               highlightId' = Empty /\ matchMsg' = "" ]_vars

\* C10 witness: a node found and highlighted in a graph built from a typed text
C10_Witness ==
    /\ ~effectPending
    /\ ~json.sample
    /\ json.val # EmptyObject
    /\ highlightId \in NodeIds(nodes)
    /\ matchMsg = MatchMsg

====
